---- MODULE Spec2Model ----
(***************************************************************************)
(* A model of the wl-codegen schema-to-code compiler (src/src/lib.rs,      *)
(* src/src/proto.rs) and of the code it emits.                             *)
(*                                                                         *)
(* Identifiers are sequences of one-character strings so that the case     *)
(* conversions can be computed character by character.  The emitted token  *)
(* streams are records that keep the structure of the quote! templates;    *)
(* doc attributes are left out.  Rust values handled by the emitted code   *)
(* are pairs <<tag, payload>>: <<"val", s>> a plain value, <<"Some", s>>   *)
(* and <<"None", "">> the two shapes of an Option.                         *)
(***************************************************************************)
EXTENDS Integers, Sequences, FiniteSets, TLC

VARIABLES
    file,       \* what the schema path holds when protocol(path) is called
    result,     \* the value returned by the last protocol(path) call
    history,    \* the results of the protocol(path) calls made so far, in order
    enumDecl,   \* the Enum handed to enumeration()
    enumCode,   \* the tokens enumeration() emitted for it
    rendered,   \* the last Debug rendering performed by the emitted impl
    iface,      \* the Interface whose emitted trait is being executed
    code,       \* the tokens interface() emitted for it
    pc,         \* position of the emitted code being executed
    inbound,    \* wire items waiting in the client's stream (to be read)
    msg,        \* the incoming Message handed to dispatch
    handle,     \* whether the Lease<dyn Any> handed to dispatch downcasts
    frame,      \* locals of the emitted body that is running
    log,        \* collaborator calls made by the emitted code, in order
    ret,        \* result returned by the last dispatch / event method
    transport   \* payload of the last committed outgoing message

vars == <<file, result, history, enumDecl, enumCode, rendered, iface, code,
          pc, inbound, msg, handle, frame, log, ret, transport>>

genVars  == <<file, result, history>>
enumVars == <<enumDecl, enumCode, rendered>>
runVars  == <<iface, code, pc, inbound, msg, handle, frame, log, ret, transport>>

(***************************************************************************)
(* Bounds of the model.                                                    *)
(***************************************************************************)
MaxInterfaces == 2
MaxRequests == 2
MaxEvents == 2
MaxArgs == 1
MaxEntries == 2
MaxEntryValue == 1
MaxRuns == 2

(***************************************************************************)
(* Characters.  U2180 stands for the single character U+2180 (ROMAN        *)
(* NUMERAL ONE THOUSAND C D): general category Nl, so char::is_numeric is  *)
(* true of it, it has no case, and it may start an identifier.             *)
(***************************************************************************)
LowerChars == <<"a","b","c","d","e","f","g","h","i","j","k","l","m",
                "n","o","p","q","r","s","t","u","v","w","x","y","z">>
UpperChars == <<"A","B","C","D","E","F","G","H","I","J","K","L","M",
                "N","O","P","Q","R","S","T","U","V","W","X","Y","Z">>
DigitChars == {"0","1","2","3","4","5","6","7","8","9"}
Range(s) == {s[i] : i \in DOMAIN s}

is_lowercase(c) == c \in Range(LowerChars)
is_uppercase(c) == c \in Range(UpperChars)
is_numeric(c) == c \in DigitChars \cup {"U2180"}
is_alphanumeric(c) == is_lowercase(c) \/ is_uppercase(c) \/ is_numeric(c)

to_uppercase(c) ==
    IF is_lowercase(c)
    THEN UpperChars[CHOOSE i \in DOMAIN LowerChars : LowerChars[i] = c]
    ELSE c
to_lowercase(c) ==
    IF is_uppercase(c)
    THEN LowerChars[CHOOSE i \in DOMAIN UpperChars : UpperChars[i] = c]
    ELSE c

uppercase(w) == [i \in DOMAIN w |-> to_uppercase(w[i])]
lowercase(w) == [i \in DOMAIN w |-> to_lowercase(w[i])]

(***************************************************************************)
(* heck's word splitting, as used by to_snake_case and                     *)
(* to_shouty_snake_case: split on every non-alphanumeric character, then   *)
(* split each piece at lower->Upper and at UPPer|Lower boundaries.         *)
(***************************************************************************)
RECURSIVE SplitNonAlnum(_, _)
SplitNonAlnum(s, cur) ==
    IF s = <<>> THEN <<cur>>
    ELSE IF is_alphanumeric(Head(s))
         THEN SplitNonAlnum(Tail(s), Append(cur, Head(s)))
         ELSE <<cur>> \o SplitNonAlnum(Tail(s), <<>>)

RECURSIVE WordPieces(_, _, _, _)
WordPieces(w, i, init, mode) ==
    IF i > Len(w) THEN <<>>
    ELSE IF i = Len(w) THEN <<SubSeq(w, init, Len(w))>>
    ELSE LET c == w[i]
             next == w[i + 1]
             next_mode == IF is_lowercase(c) THEN "Lowercase"
                          ELSE IF is_uppercase(c) THEN "Uppercase"
                          ELSE mode
         IN  IF next_mode = "Lowercase" /\ is_uppercase(next)
             THEN <<SubSeq(w, init, i)>> \o WordPieces(w, i + 1, i + 1, "Boundary")
             ELSE IF mode = "Uppercase" /\ is_uppercase(c) /\ is_lowercase(next)
             THEN <<SubSeq(w, init, i - 1)>> \o WordPieces(w, i + 1, i, "Boundary")
             ELSE WordPieces(w, i + 1, init, next_mode)

RECURSIVE Words(_)
Words(pieces) ==
    IF pieces = <<>> THEN <<>>
    ELSE WordPieces(Head(pieces), 1, 1, "Boundary") \o Words(Tail(pieces))

RECURSIVE JoinUnderscore(_)
JoinUnderscore(ws) ==
    IF ws = <<>> THEN <<>>
    ELSE IF Len(ws) = 1 THEN ws[1]
    ELSE ws[1] \o <<"_">> \o JoinUnderscore(Tail(ws))

to_shouty_snake_case(s) ==
    LET ws == Words(SplitNonAlnum(s, <<>>))
    IN  JoinUnderscore([i \in DOMAIN ws |-> uppercase(ws[i])])

to_snake_case(s) ==
    LET ws == Words(SplitNonAlnum(s, <<>>))
    IN  JoinUnderscore([i \in DOMAIN ws |-> lowercase(ws[i])])

(***************************************************************************)
(* The data model (proto.rs).  An absent Option<String> pinned interface   *)
(* is the empty sequence.                                                  *)
(***************************************************************************)
DataType == {"Int", "Uint", "Fixed", "String", "Array", "Fd", "Object", "NewId"}

Arg(name, nullable, ty, interface) ==
    [name |-> name, nullable |-> nullable, ty |-> ty, interface |-> interface]
Request(name, args) == [name |-> name, args |-> args]
Event(name, args) == [name |-> name, args |-> args]
Entry(name, value) == [name |-> name, value |-> value]
Enum(name, entries) == [name |-> name, entries |-> entries]
Interface(name, version, enums, requests, events) ==
    [name |-> name, version |-> version, enums |-> enums,
     requests |-> requests, events |-> events]
Protocol(name, interfaces) == [name |-> name, interfaces |-> interfaces]

(***************************************************************************)
(* The type mapper: Arg::getter, Arg::sender, Arg::ty, Arg::send_ty.       *)
(* A decode template is the cursor call and whether                        *)
(* .ok_or(WlError::NON_NULLABLE)? follows it; an encode template is the    *)
(* stream call, the parameter it passes and whether that is wrapped in     *)
(* Some(..).                                                               *)
(***************************************************************************)
Getter(call, ok_or) == [call |-> call, ok_or |-> ok_or]
Sender(call, ident, some) == [call |-> call, ident |-> ident, some |-> some]

getter_presence_check_swapped(a) ==
    CASE a.ty = "Int" -> Getter("i32", FALSE)
      [] a.ty = "Uint" -> Getter("u32", FALSE)
      [] a.ty = "Fixed" -> Getter("fixed", FALSE)
      [] a.ty = "String" -> Getter("string", a.nullable)
      [] a.ty = "Array" -> Getter("bytes", FALSE)
      [] a.ty = "Fd" -> Getter("file", FALSE)
      [] a.ty = "Object" -> Getter("object", a.nullable)
      [] a.ty = "NewId" -> IF a.interface # <<>> THEN Getter("object", TRUE)
                           ELSE Getter("new_id", FALSE)

getter_new_id_always_descriptor(a) ==
    CASE a.ty = "Int" -> Getter("i32", FALSE)
      [] a.ty = "Uint" -> Getter("u32", FALSE)
      [] a.ty = "Fixed" -> Getter("fixed", FALSE)
      [] a.ty = "String" -> Getter("string", ~a.nullable)
      [] a.ty = "Array" -> Getter("bytes", FALSE)
      [] a.ty = "Fd" -> Getter("file", FALSE)
      [] a.ty = "Object" -> Getter("object", ~a.nullable)
      [] a.ty = "NewId" -> Getter("new_id", FALSE)

getter(a) ==
    CASE a.ty = "Int" -> Getter("i32", FALSE)
      [] a.ty = "Uint" -> Getter("u32", FALSE)
      [] a.ty = "Fixed" -> Getter("fixed", FALSE)
      [] a.ty = "String" -> IF a.nullable THEN Getter("string", FALSE)
                            ELSE Getter("string", TRUE)
      [] a.ty = "Array" -> Getter("bytes", FALSE)
      [] a.ty = "Fd" -> Getter("file", FALSE)
      [] a.ty = "Object" -> IF a.nullable THEN Getter("object", FALSE)
                            ELSE Getter("object", TRUE)
      [] a.ty = "NewId" -> IF a.interface # <<>> THEN Getter("object", TRUE)
                           ELSE Getter("new_id", FALSE)

sender_new_id_always_descriptor(a) ==
    LET ident == to_snake_case(a.name)
    IN  CASE a.ty = "Int" -> Sender("send_i32", ident, FALSE)
          [] a.ty = "Uint" -> Sender("send_u32", ident, FALSE)
          [] a.ty = "Fixed" -> Sender("send_fixed", ident, FALSE)
          [] a.ty = "String" -> Sender("send_string", ident, ~a.nullable)
          [] a.ty = "Array" -> Sender("send_bytes", ident, FALSE)
          [] a.ty = "Fd" -> Sender("send_file", ident, FALSE)
          [] a.ty = "Object" -> Sender("send_object", ident, ~a.nullable)
          [] a.ty = "NewId" -> Sender("send_new_id", ident, FALSE)

sender(a) ==
    LET ident == to_snake_case(a.name)
    IN  CASE a.ty = "Int" -> Sender("send_i32", ident, FALSE)
          [] a.ty = "Uint" -> Sender("send_u32", ident, FALSE)
          [] a.ty = "Fixed" -> Sender("send_fixed", ident, FALSE)
          [] a.ty = "String" -> IF a.nullable THEN Sender("send_string", ident, FALSE)
                                ELSE Sender("send_string", ident, TRUE)
          [] a.ty = "Array" -> Sender("send_bytes", ident, FALSE)
          [] a.ty = "Fd" -> Sender("send_file", ident, FALSE)
          [] a.ty = "Object" -> IF a.nullable THEN Sender("send_object", ident, FALSE)
                                ELSE Sender("send_object", ident, TRUE)
          [] a.ty = "NewId" -> IF a.interface # <<>> THEN Sender("send_object", ident, TRUE)
                               ELSE Sender("send_new_id", ident, FALSE)

ty_never_optional(a) ==
    CASE a.ty = "Int" -> "::core::primitive::i32"
      [] a.ty = "Uint" -> "::core::primitive::u32"
      [] a.ty = "Fixed" -> "::yutani::Fixed"
      [] a.ty = "String" -> "::std::string::String"
      [] a.ty = "Array" -> "::std::vec::Vec<u8>"
      [] a.ty = "Fd" -> "::yutani::File"
      [] a.ty = "Object" -> "::yutani::Id"
      [] a.ty = "NewId" -> IF a.interface # <<>> THEN "::yutani::Id"
                           ELSE "::yutani::NewId"

ty(a) ==
    CASE a.ty = "Int" -> "::core::primitive::i32"
      [] a.ty = "Uint" -> "::core::primitive::u32"
      [] a.ty = "Fixed" -> "::yutani::Fixed"
      [] a.ty = "String" -> IF a.nullable THEN "::core::option::Option<::std::string::String>"
                            ELSE "::std::string::String"
      [] a.ty = "Array" -> "::std::vec::Vec<u8>"
      [] a.ty = "Fd" -> "::yutani::File"
      [] a.ty = "Object" -> IF a.nullable THEN "::core::option::Option<::yutani::Id>"
                            ELSE "::yutani::Id"
      [] a.ty = "NewId" -> IF a.interface # <<>> THEN "::yutani::Id"
                           ELSE "::yutani::NewId"

send_ty(a) ==
    CASE a.ty = "Int" -> "::core::primitive::i32"
      [] a.ty = "Uint" -> "::core::primitive::u32"
      [] a.ty = "Fixed" -> "::yutani::Fixed"
      [] a.ty = "String" -> IF a.nullable THEN "::core::option::Option<&'_ ::core::primitive::str>"
                            ELSE "&'_ ::core::primitive::str"
      [] a.ty = "Array" -> "&'_ [::core::primitive::u8]"
      [] a.ty = "Fd" -> "::yutani::Fd<'static>"
      [] a.ty = "Object" -> IF a.nullable THEN "::core::option::Option<::yutani::Id>"
                            ELSE "::yutani::Id"
      [] a.ty = "NewId" -> IF a.interface # <<>> THEN "::yutani::Id"
                           ELSE "&'_ ::yutani::NewId"

(***************************************************************************)
(* heck's to_pascal_case: every word capitalised, joined by nothing.       *)
(***************************************************************************)
capitalize(w) ==
    [i \in DOMAIN w |-> IF i = 1 THEN to_uppercase(w[i]) ELSE to_lowercase(w[i])]

RECURSIVE Concat(_)
Concat(ws) == IF ws = <<>> THEN <<>> ELSE Head(ws) \o Concat(Tail(ws))

to_pascal_case(s) ==
    LET ws == Words(SplitNonAlnum(s, <<>>))
    IN  Concat([i \in DOMAIN ws |-> capitalize(ws[i])])

(***************************************************************************)
(* The code emitter (lib.rs).                                              *)
(***************************************************************************)
\* Iterator::enumerate followed by opcode.try_into().unwrap(): the pairs
\* <<zero-based position, element>>.  (The conversion to u16 panics past
\* 65535 members, far outside the bounds used here.)
enumerate_one_based(seq) == [i \in DOMAIN seq |-> <<i, seq[i]>>]
enumerate(seq) == [i \in DOMAIN seq |-> <<i - 1, seq[i]>>]

event_senders_reversed(e, opcode) ==
    [ident |-> to_snake_case(e.name),
     params |-> [k \in DOMAIN e.args |->
                    [ident |-> to_snake_case(e.args[k].name), ty |-> send_ty(e.args[k])]],
     stream |-> "client.stream()",
     start_message |-> <<"this.id()", opcode>>,
     args_senders |-> [k \in DOMAIN e.args |-> sender(e.args[Len(e.args) + 1 - k])],
     commit |-> "_key"]

\* fn event(event, opcode)
event(e, opcode) ==
    [ident |-> to_snake_case(e.name),
     params |-> [k \in DOMAIN e.args |->
                    [ident |-> to_snake_case(e.args[k].name), ty |-> send_ty(e.args[k])]],
     stream |-> "client.stream()",
     start_message |-> <<"this.id()", opcode>>,
     args_senders |-> [k \in DOMAIN e.args |-> sender(e.args[k])],
     commit |-> "_key"]

\* fn request(request): the abstract method's signature
request(r) ==
    [ident |-> to_snake_case(r.name),
     params |-> [k \in DOMAIN r.args |->
                    [ident |-> to_snake_case(r.args[k].name), ty |-> ty(r.args[k])]]]

dispatch_request_reversed(opcode, r) ==
    [opcode |-> opcode,
     stream |-> "_client.stream()",
     define_args |-> [k \in DOMAIN r.args |->
                        [ident |-> to_snake_case(r.args[Len(r.args) + 1 - k].name),
                         getter |-> getter(r.args[Len(r.args) + 1 - k])]],
     call |-> [ident |-> to_snake_case(r.name),
               args |-> [k \in DOMAIN r.args |-> to_snake_case(r.args[k].name)]]]

\* one arm of dispatch_requests
dispatch_request(opcode, r) ==
    [opcode |-> opcode,
     stream |-> "_client.stream()",
     define_args |-> [k \in DOMAIN r.args |->
                        [ident |-> to_snake_case(r.args[k].name), getter |-> getter(r.args[k])]],
     call |-> [ident |-> to_snake_case(r.name),
               args |-> [k \in DOMAIN r.args |-> to_snake_case(r.args[k].name)]]]

entry_const_name_unprefixed(enumeration_name, entry_name) ==
    to_shouty_snake_case(entry_name)

\* the name of an entry's constant (let entries = ...)
entry_const_name(enumeration_name, entry_name) ==
    IF entry_name # <<>> /\ is_numeric(Head(entry_name))
    THEN to_shouty_snake_case(enumeration_name \o <<"_">> \o entry_name)
    ELSE to_shouty_snake_case(entry_name)

\* the name an entry is rendered with (let entries_debug = ...)
entry_debug_name(enumeration_name, entry_name) ==
    IF entry_name # <<>> /\ is_numeric(Head(entry_name))
    THEN to_shouty_snake_case(enumeration_name \o <<"_">> \o entry_name)
    ELSE to_shouty_snake_case(entry_name)

\* fn enumeration(enumeration)
enumeration(e) ==
    [ident |-> to_pascal_case(e.name),
     entries |-> [k \in DOMAIN e.entries |->
                    [ident |-> entry_const_name(e.name, e.entries[k].name),
                     value |-> e.entries[k].value]],
     entries_debug |-> [k \in DOMAIN e.entries |->
                    [pattern |-> e.entries[k].value,
                     name |-> entry_debug_name(e.name, e.entries[k].name),
                     value |-> e.entries[k].value]],
     fallback |-> <<"U","N","K","N","O","W","N">>]

\* fn interface(interface)
interface(i) ==
    LET numbered_requests == enumerate(i.requests)
        numbered_events == enumerate(i.events)
    IN  [trait_ident |-> to_pascal_case(i.name),
         mod_ident |-> to_snake_case(i.name),
         INTERFACE |-> i.name,
         VERSION |-> i.version,
         downcast_err |-> "INTERNAL",
         dispatch_requests |-> [k \in DOMAIN i.requests |->
             dispatch_request(numbered_requests[k][1], numbered_requests[k][2])],
         default_arm |-> "INVALID_OPCODE",
         requests |-> [k \in DOMAIN i.requests |-> request(i.requests[k])],
         events |-> [k \in DOMAIN i.events |->
             event(numbered_events[k][2], numbered_events[k][1])],
         enums |-> [k \in DOMAIN i.enums |-> enumeration(i.enums[k])]]

(***************************************************************************)
(* The schema loader and the entry point protocol(path).  A result is      *)
(* <<"Err", kind>> or <<"Ok", tokens>>.                                    *)
(***************************************************************************)
NoProtocol == Protocol(<<>>, <<>>)
FileOf(kind, p) == [kind |-> kind, protocol |-> p]

\* Protocol::from_str
from_str(f) ==
    IF f.kind = "malformed" THEN <<"Err", "Toml">> ELSE <<"Ok", f.protocol>>

load_ignoring_read_error(f) ==
    IF f.kind = "missing" THEN <<"Err", "Io">> ELSE from_str(f)

\* Protocol::load: File::open, read_to_string (an I/O error or text that is
\* not UTF-8), then from_str
load(f) ==
    IF f.kind = "missing" THEN <<"Err", "Io">>
    ELSE IF f.kind = "unreadable" THEN <<"Err", "Io">>
    ELSE from_str(f)

\* fn protocol(path)
protocol(f) ==
    LET loaded == load(f)
    IN  IF loaded[1] = "Err" THEN loaded
        ELSE LET p == loaded[2]
             IN  <<"Ok", [header |-> p.name,
                          interfaces |-> [k \in DOMAIN p.interfaces |->
                                              interface(p.interfaces[k])]]>>

(***************************************************************************)
(* The emitted Debug impl of an enum wrapper: a match on self.0 whose      *)
(* arms are tried in order, the first arm whose literal equals the value   *)
(* is taken, and the binding arm `value => UNKNOWN` is last.               *)
(***************************************************************************)
RECURSIVE Decimal(_)
Decimal(n) ==
    LET d == <<"0","1","2","3","4","5","6","7","8","9">>[(n % 10) + 1]
    IN  IF n < 10 THEN <<d>> ELSE Append(Decimal(n \div 10), d)

\* ::core::write!(f, "{}({})", name, value)
write(name, value) == name \o <<"(">> \o Decimal(value) \o <<")">>

match_arm_last(arms, v) ==
    LET hits == {k \in DOMAIN arms : arms[k].pattern = v}
    IN  IF hits = {} THEN 0
        ELSE CHOOSE k \in hits : \A j \in hits : k >= j

\* which arm of the match is taken for a value: 0 is the binding arm
match_arm(arms, v) ==
    LET hits == {k \in DOMAIN arms : arms[k].pattern = v}
    IN  IF hits = {} THEN 0
        ELSE CHOOSE k \in hits : \A j \in hits : k <= j

\* fn fmt(&self, f) of the emitted impl Debug
fmt(ec, v) ==
    LET k == match_arm(ec.entries_debug, v)
    IN  IF k = 0 THEN write(ec.fallback, v)
        ELSE write(ec.entries_debug[k].name, ec.entries_debug[k].value)

(***************************************************************************)
(* Inputs.                                                                 *)
(***************************************************************************)
InjSeqs(S, n) ==
    UNION {{s \in [1..k -> S] : \A i, j \in 1..k : i # j => s[i] # s[j]} : k \in 0..n}
SeqsUpTo(S, n) == UNION {[1..k -> S] : k \in 0..n}

Name_wl_surface == <<"w","l","_","s","u","r","f","a","c","e">>
Name_wl_seat == <<"w","l","_","s","e","a","t">>
Name_destroy == <<"d","e","s","t","r","o","y">>
Name_attach == <<"a","t","t","a","c","h">>
Name_set_title == <<"s","e","t","_","t","i","t","l","e">>
Name_enter == <<"e","n","t","e","r">>
Name_done == <<"d","o","n","e">>
Name_buffer == <<"b","u","f","f","e","r">>
Name_title == <<"t","i","t","l","e">>
Name_serial == <<"s","e","r","i","a","l">>
Name_surface == <<"s","u","r","f","a","c","e">>
Name_x == <<"x">>
Name_transform == <<"t","r","a","n","s","f","o","r","m">>
Name_mode == <<"m","o","d","e">>
Name_normal == <<"n","o","r","m","a","l">>
Name_180 == <<"1","8","0">>
Name_flipped_90 == <<"f","l","i","p","p","e","d","_","9","0">>
Name_roman == <<"U2180">>

SchemaRequests ==
    {Request(Name_destroy, <<>>),
     Request(Name_attach, <<Arg(Name_buffer, TRUE, "Object", Name_wl_surface),
                            Arg(Name_x, FALSE, "Int", <<>>)>>),
     Request(Name_set_title, <<Arg(Name_title, FALSE, "String", <<>>)>>)}
SchemaEvents ==
    {Event(Name_done, <<Arg(Name_serial, FALSE, "Uint", <<>>)>>),
     Event(Name_enter, <<Arg(Name_serial, FALSE, "Uint", <<>>),
                         Arg(Name_surface, FALSE, "Object", Name_wl_surface)>>)}
InterfaceNames == {Name_wl_surface, Name_wl_seat}

\* what an interface declares besides its name
GenBodies ==
    {[requests |-> rs, events |-> es] :
        rs \in InjSeqs({r \in SchemaRequests : r.name # Name_set_title}, MaxRequests),
        es \in InjSeqs(SchemaEvents, MaxEvents)}
InterfaceBodies ==
    {[requests |-> rs, events |-> es] :
        rs \in InjSeqs(SchemaRequests, MaxRequests),
        es \in InjSeqs(SchemaEvents, MaxEvents)}
Protocols ==
    UNION {{Protocol(Name_wl_seat,
                     [k \in DOMAIN ns |->
                        Interface(ns[k], 1, <<>>, bs[k].requests, bs[k].events)]) :
                bs \in [DOMAIN ns -> GenBodies]} :
           ns \in InjSeqs(InterfaceNames, MaxInterfaces)}
Files ==
    {FileOf("missing", NoProtocol), FileOf("unreadable", NoProtocol),
     FileOf("malformed", NoProtocol)}
    \cup {FileOf("toml", p) : p \in Protocols}

EntryNames == {Name_normal, Name_180, Name_flipped_90, Name_roman}
Entries == {Entry(n, v) : n \in EntryNames, v \in 0..MaxEntryValue}
Enums == {Enum(n, es) : n \in {Name_transform, Name_mode}, es \in SeqsUpTo(Entries, MaxEntries)}

(***************************************************************************)
(* The variables a specification does not use stay at these values.        *)
(***************************************************************************)
GenIdle == file = FileOf("missing", NoProtocol) /\ result = <<>> /\ history = <<>>
EnumIdle == enumDecl = Enum(<<>>, <<>>) /\ enumCode = <<>> /\ rendered = <<>>
RunIdle ==
    /\ iface = Interface(<<>>, 0, <<>>, <<>>, <<>>)
    /\ code = <<>>
    /\ pc = "idle"
    /\ inbound = <<>>
    /\ msg = <<>>
    /\ handle = TRUE
    /\ frame = <<>>
    /\ log = <<>>
    /\ ret = <<>>
    /\ transport = <<>>

(***************************************************************************)
(* SpecGen: a build script calling protocol(path) on a schema file.        *)
(***************************************************************************)
InitGen == file \in Files /\ result = <<>> /\ history = <<>> /\ EnumIdle /\ RunIdle

\* protocol(path)
CallProtocol ==
    /\ Len(history) < MaxRuns
    /\ result' = protocol(file)
    /\ history' = Append(history, result')
    /\ UNCHANGED <<file, enumVars, runVars>>

NextGen == CallProtocol
SpecGen == InitGen /\ [][NextGen]_vars

(***************************************************************************)
(* SpecEnum: enumeration() on one Enum, then the emitted Debug impl        *)
(* rendering wrapped values.                                               *)
(***************************************************************************)
InitEnum == enumDecl \in Enums /\ enumCode = <<>> /\ rendered = <<>> /\ GenIdle /\ RunIdle

\* enumeration(enumeration)
GenerateEnum ==
    /\ enumCode = <<>>
    /\ enumCode' = <<enumeration(enumDecl)>>
    /\ UNCHANGED <<enumDecl, rendered, genVars, runVars>>

\* format!("{:?}", Wrapper::from(v)) in the hosting program
Render ==
    /\ enumCode # <<>>
    /\ \E v \in 0..(MaxEntryValue + 1) :
          rendered' = <<[value |-> v, text |-> fmt(enumCode[1], v)]>>
    /\ UNCHANGED <<enumDecl, enumCode, genVars, runVars>>

NextEnum == GenerateEnum \/ Render
SpecEnum == InitEnum /\ [][NextEnum]_vars

(***************************************************************************)
(* The runtime the emitted code calls into (message cursor, message        *)
(* stream, lease), after the collaborator contracts: typed fallible reads, *)
(* start_message / send_* / commit.                                        *)
(***************************************************************************)
Plain(s) == <<"val", s>>
Some(s) == <<"Some", s>>
None == <<"None", "">>
Ok(v) == <<"Ok", v>>
Err(e) == <<"Err", <<"error", e>>>>
Unit == <<"val", "()">>

Item(kind, val) == [kind |-> kind, val |-> val]

\* the wire kind a send_* call writes
SendKind(call) ==
    CASE call = "send_i32" -> "i32"
      [] call = "send_u32" -> "u32"
      [] call = "send_fixed" -> "fixed"
      [] call = "send_string" -> "string"
      [] call = "send_bytes" -> "bytes"
      [] call = "send_file" -> "file"
      [] call = "send_object" -> "object"
      [] call = "send_new_id" -> "new_id"

\* a typed read of the cursor: the head item if it has the kind read
StreamRead(stream, call) ==
    IF stream # <<>> /\ Head(stream).kind = call THEN Ok(Head(stream).val)
    ELSE Err("DECODE")

\* the wire kind of an argument in the protocol's wire format
WireKind(a) ==
    CASE a.ty = "Int" -> "i32"
      [] a.ty = "Uint" -> "u32"
      [] a.ty = "Fixed" -> "fixed"
      [] a.ty = "String" -> "string"
      [] a.ty = "Array" -> "bytes"
      [] a.ty = "Fd" -> "file"
      [] a.ty = "Object" -> "object"
      [] a.ty = "NewId" -> IF a.interface # <<>> THEN "object" ELSE "new_id"

PositionValue(k) == <<"v1", "v2", "v3", "v4">>[k]

OptionTypes ==
    {"::core::option::Option<::std::string::String>",
     "::core::option::Option<::yutani::Id>",
     "::core::option::Option<&'_ ::core::primitive::str>"}

\* the values a caller can pass for parameter k of a signature
ParamValues(params) ==
    {vs \in [DOMAIN params -> {Plain(PositionValue(k)) : k \in DOMAIN params}
                              \cup {Some(PositionValue(k)) : k \in DOMAIN params}
                              \cup {None}] :
        \A k \in DOMAIN params :
            IF params[k].ty \in OptionTypes
            THEN vs[k] \in {Some(PositionValue(k)), None}
            ELSE vs[k] = Plain(PositionValue(k))}

\* the payloads a peer can put on the wire for a request: one item per
\* argument, of the argument's wire kind, possibly cut short
PeerPayloads(args) ==
    LET items == UNION {{Item(WireKind(args[k]), v) :
                            v \in {Plain(PositionValue(k)), Some(PositionValue(k)), None}} :
                        k \in DOMAIN args}
        full == {is \in [DOMAIN args -> items] :
                    \A k \in DOMAIN args :
                        /\ is[k].kind = WireKind(args[k])
                        /\ IF is[k].kind \in {"string", "object"}
                           THEN is[k].val \in {Some(PositionValue(k)), None}
                           ELSE is[k].val = Plain(PositionValue(k))}
    IN  {SubSeq(is, 1, n) : is \in full, n \in 0..Len(args)}

\* the value bound to an identifier: the last binding of that name
Lookup(bindings, ident) ==
    LET ks == {k \in DOMAIN bindings : bindings[k].ident = ident}
    IN  bindings[CHOOSE k \in ks : \A j \in ks : k >= j].value

\* Option::ok_or(WlError::NON_NULLABLE)? on the result of a read
ok_or_non_nullable(v) ==
    IF v[1] = "None" THEN Err("NON_NULLABLE")
    ELSE IF v[1] = "Some" THEN Ok(Plain(v[2]))
    ELSE Ok(v)

\* one `let ident = getter;` of a dispatch arm, run against the stream
RunGetter(g, stream) ==
    LET got == StreamRead(stream, g.call)
    IN  [got |-> got,
         out |-> IF got[1] = "Err" THEN got
                 ELSE IF g.ok_or THEN ok_or_non_nullable(got[2])
                 ELSE got]

\* the argument expression of one `stream.send_x(..)?` of an event body
SenderArgument(snd, bindings) ==
    LET v == Lookup(bindings, snd.ident)
    IN  IF snd.some THEN Some(v[2]) ELSE v

LogEntry(op, src, name, pos, a, b) ==
    [op |-> op, src |-> src, name |-> name, pos |-> pos, a |-> a, b |-> b]

ObjectId == "id7"
NoFrame == [kind |-> "none", index |-> 0, next |-> 0, bindings |-> <<>>, items |-> <<>>,
            key |-> <<>>]

(***************************************************************************)
(* Inputs of SpecRun: interfaces over the schema requests and events, and  *)
(* interfaces with one request and one event that take the same argument   *)
(* list, for every list of argument shapes.                                *)
(***************************************************************************)
ArgNames == <<Name_x, Name_serial, Name_title, Name_buffer>>
ArgShapes ==
    {[ty |-> t, nullable |-> n, interface |-> <<>>] : t \in DataType, n \in BOOLEAN}
    \cup {[ty |-> "NewId", nullable |-> n, interface |-> Name_wl_surface] : n \in BOOLEAN}
Shape(t, n, i) == [ty |-> t, nullable |-> n, interface |-> i]
\* longer lists that mix the shapes
MixedShapes ==
    {<<Shape("Int", FALSE, <<>>), Shape("String", FALSE, <<>>), Shape("Object", TRUE, <<>>)>>,
     <<Shape("NewId", TRUE, Name_wl_surface), Shape("NewId", FALSE, <<>>),
       Shape("Fd", FALSE, <<>>)>>,
     <<Shape("String", TRUE, <<>>), Shape("Object", FALSE, <<>>), Shape("Array", FALSE, <<>>)>>,
     <<Shape("Uint", FALSE, <<>>), Shape("Fixed", FALSE, <<>>), Shape("Uint", FALSE, <<>>)>>}
ArgLists ==
    {[k \in DOMAIN shapes |->
        Arg(ArgNames[k], shapes[k].nullable, shapes[k].ty, shapes[k].interface)] :
     shapes \in SeqsUpTo(ArgShapes, MaxArgs) \cup MixedShapes}
RunInterfaces ==
    {Interface(Name_wl_surface, 1, <<>>, b.requests, b.events) : b \in InterfaceBodies}
    \cup {Interface(Name_wl_seat, 1, <<>>,
                    <<Request(Name_attach, args)>>, <<Event(Name_enter, args)>>) :
          args \in ArgLists}

(***************************************************************************)
(* SpecRun: the emitted dispatch and event methods of one interface,       *)
(* executed statement by statement.                                        *)
(***************************************************************************)
InitRun ==
    /\ iface \in RunInterfaces
    /\ code = <<interface(iface)>>
    /\ pc = "idle"
    /\ inbound = <<>>
    /\ msg = <<>>
    /\ handle = TRUE
    /\ frame = NoFrame
    /\ log = <<>>
    /\ ret = <<>>
    /\ transport = <<>>
    /\ GenIdle /\ EnumIdle

\* the peer sends a request: an opcode and a payload
PeerSends ==
    /\ pc = "idle"
    /\ \E opcode \in 0..MaxRequests :
          \E payload \in IF opcode + 1 \in DOMAIN iface.requests
                         THEN PeerPayloads(iface.requests[opcode + 1].args)
                         ELSE {<<>>} :
              /\ msg' = <<[opcode |-> opcode, echo |-> <<>>, dispatched |-> FALSE]>>
              /\ inbound' = payload
    /\ frame' = NoFrame /\ log' = <<>> /\ ret' = <<>> /\ transport' = <<>>
    /\ UNCHANGED <<iface, code, pc, handle, genVars, enumVars>>

\* the peer echoes the last committed event back as the request with the
\* same opcode
Loopback ==
    /\ pc = "idle"
    /\ transport # <<>>
    /\ msg' = <<[opcode |-> transport[1].opcode, echo |-> <<[params |-> transport[1].params,
                                                              items |-> transport[1].items]>>,
                 dispatched |-> FALSE]>>
    /\ inbound' = transport[1].items
    /\ frame' = NoFrame /\ log' = <<>> /\ ret' = <<>> /\ transport' = <<>>
    /\ UNCHANGED <<iface, code, pc, handle, genVars, enumVars>>

dispatch_entry_match_first(c, downcasts, opcode) ==
    LET hits == {k \in DOMAIN c.dispatch_requests : c.dispatch_requests[k].opcode = opcode}
    IN  IF hits = {} THEN Err(c.default_arm)
        ELSE IF ~downcasts THEN Err(c.downcast_err)
        ELSE <<"Arm", CHOOSE k \in hits : \A j \in hits : k <= j>>

\* the head of the emitted dispatch: the downcast, then the match on
\* _message.opcode, which takes the first arm whose literal equals it
dispatch_entry(c, downcasts, opcode) ==
    LET hits == {k \in DOMAIN c.dispatch_requests : c.dispatch_requests[k].opcode = opcode}
    IN  IF ~downcasts THEN Err(c.downcast_err)
        ELSE IF hits = {} THEN Err(c.default_arm)
        ELSE <<"Arm", CHOOSE k \in hits : \A j \in hits : k <= j>>

\* fn dispatch(_this, _event_loop, _client, _message) up to the match
Dispatch ==
    /\ pc = "idle"
    /\ msg # <<>> /\ ~msg[1].dispatched
    /\ msg' = <<[msg[1] EXCEPT !.dispatched = TRUE]>>
    /\ log' = <<>>
    /\ \E downcasts \in BOOLEAN :
          /\ handle' = downcasts
          /\ LET taken == dispatch_entry(code[1], downcasts, msg[1].opcode)
             IN  IF taken[1] = "Err"
                 THEN /\ ret' = taken
                      /\ UNCHANGED <<pc, frame>>
                 ELSE /\ frame' = [NoFrame EXCEPT
                                     !.kind = "dispatch", !.index = taken[2], !.next = 1]
                      /\ pc' = "decode"
                      /\ ret' = <<>>
    /\ UNCHANGED <<iface, code, inbound, transport, genVars, enumVars>>

\* one `let ident = getter;` of the arm
DecodeArg ==
    /\ pc = "decode"
    /\ LET arm == code[1].dispatch_requests[frame.index]
       IN  /\ frame.next <= Len(arm.define_args)
           /\ LET d == arm.define_args[frame.next]
                  r == RunGetter(d.getter, inbound)
              IN  /\ log' = Append(log, LogEntry("read", arm.stream, d.getter.call,
                                                 frame.next, r.got, r.out))
                  /\ inbound' = IF r.got[1] = "Ok" THEN Tail(inbound) ELSE inbound
                  /\ IF r.out[1] = "Err"
                     THEN /\ ret' = r.out
                          /\ pc' = "idle"
                          /\ UNCHANGED frame
                     ELSE /\ frame' = [frame EXCEPT
                                         !.next = @ + 1,
                                         !.bindings = Append(@, [ident |-> d.ident,
                                                                 value |-> r.out[2]])]
                          /\ UNCHANGED <<ret, pc>>
    /\ UNCHANGED <<iface, code, msg, handle, transport, genVars, enumVars>>

\* Self::ident(_this, _event_loop, _client, args..): the user's handler runs
\* and its result is dispatch's result
CallHandler ==
    /\ pc = "decode"
    /\ LET arm == code[1].dispatch_requests[frame.index]
       IN  /\ frame.next > Len(arm.define_args)
           /\ \E res \in {Ok(Unit), Err("HANDLER")} :
                 /\ log' = Append(log, LogEntry("call", "Self", arm.call.ident, 0,
                                    [k \in DOMAIN arm.call.args |->
                                        Lookup(frame.bindings, arm.call.args[k])],
                                    res))
                 /\ ret' = res
    /\ pc' = "idle"
    /\ UNCHANGED <<iface, code, inbound, msg, handle, frame, transport, genVars, enumVars>>

\* an event method is called: let _stream = client.stream();
\* let _key = _stream.start_message(this.id(), opcode);
EventCall ==
    /\ pc = "idle"
    /\ \E j \in DOMAIN code[1].events :
          \E vs \in ParamValues(code[1].events[j].params) :
              LET ev == code[1].events[j]
                  key == <<"key", ObjectId, ev.start_message[2]>>
              IN  /\ frame' = [kind |-> "event", index |-> j, next |-> 1,
                               bindings |-> [k \in DOMAIN vs |->
                                               [ident |-> ev.params[k].ident,
                                                value |-> vs[k]]],
                               items |-> <<>>, key |-> key]
                  /\ log' = <<LogEntry("start_message", ev.stream, "start_message", 0,
                                       <<ObjectId, ev.start_message[2]>>, key)>>
    /\ pc' = "send"
    /\ msg' = <<>> /\ inbound' = <<>> /\ ret' = <<>> /\ transport' = <<>>
    /\ UNCHANGED <<iface, code, handle, genVars, enumVars>>

\* one `_stream.send_x(..)?;` of the event body
EventSend ==
    /\ pc = "send"
    /\ LET ev == code[1].events[frame.index]
       IN  /\ frame.next <= Len(ev.args_senders)
           /\ LET snd == ev.args_senders[frame.next]
                  v == SenderArgument(snd, frame.bindings)
              IN  \E ok \in BOOLEAN :
                    /\ log' = Append(log, LogEntry("send", ev.stream, snd.call, frame.next,
                                        v, IF ok THEN Ok(Unit) ELSE Err("ENCODE")))
                    /\ IF ok
                       THEN /\ frame' = [frame EXCEPT
                                           !.next = @ + 1,
                                           !.items = Append(@, Item(SendKind(snd.call), v))]
                            /\ UNCHANGED <<ret, pc>>
                       ELSE /\ ret' = Err("ENCODE")
                            /\ pc' = "idle"
                            /\ UNCHANGED frame
    /\ UNCHANGED <<iface, code, inbound, msg, handle, transport, genVars, enumVars>>

\* `_stream.commit(_key)`, whose result is the method's result
EventCommit ==
    /\ pc = "send"
    /\ LET ev == code[1].events[frame.index]
       IN  /\ frame.next > Len(ev.args_senders)
           /\ \E ok \in BOOLEAN :
                 /\ log' = Append(log, LogEntry("commit", ev.stream, "commit", 0, frame.key,
                                    IF ok THEN Ok(Unit) ELSE Err("COMMIT")))
                 /\ ret' = IF ok THEN Ok(Unit) ELSE Err("COMMIT")
                 /\ transport' =
                       IF ok
                       THEN <<[opcode |-> frame.key[3], items |-> frame.items,
                               params |-> [k \in DOMAIN frame.bindings |->
                                              frame.bindings[k].value]]>>
                       ELSE <<>>
    /\ pc' = "idle"
    /\ UNCHANGED <<iface, code, inbound, msg, handle, frame, genVars, enumVars>>

NextRun ==
    \/ PeerSends
    \/ Loopback
    \/ Dispatch
    \/ DecodeArg
    \/ CallHandler
    \/ EventCall
    \/ EventSend
    \/ EventCommit
SpecRun == InitRun /\ [][NextRun]_vars

(***************************************************************************)
(* Properties of SpecGen.                                                  *)
(***************************************************************************)
OkRuns == {h \in DOMAIN history : history[h][1] = "Ok"}

\* C1: in every generated interface the dispatch arm emitted for the request
\* declared at zero-based position i matches opcode i and calls that request's
\* method, the event method emitted for the event declared at zero-based
\* position j starts its message with opcode j, the two numberings are
\* independent, and every generation from the unchanged schema gives the same
\* opcodes.
C1_OpcodeIsDeclarationIndex ==
    /\ \A h \in OkRuns :
        LET out == history[h][2].interfaces
            decl == file.protocol.interfaces
        IN  \A k \in DOMAIN decl \cap DOMAIN out :
              /\ DOMAIN out[k].dispatch_requests = DOMAIN decl[k].requests
              /\ DOMAIN out[k].events = DOMAIN decl[k].events
              /\ \A i \in DOMAIN decl[k].requests :
                    /\ out[k].dispatch_requests[i].opcode = i - 1
                    /\ out[k].dispatch_requests[i].call.ident
                         = to_snake_case(decl[k].requests[i].name)
              /\ \A j \in DOMAIN decl[k].events :
                    /\ out[k].events[j].start_message[2] = j - 1
                    /\ out[k].events[j].ident = to_snake_case(decl[k].events[j].name)
    /\ \A g, h \in OkRuns :
        \A k \in DOMAIN history[g][2].interfaces \cap DOMAIN history[h][2].interfaces :
            LET a == history[g][2].interfaces[k]
                b == history[h][2].interfaces[k]
            IN  /\ [i \in DOMAIN a.dispatch_requests |-> a.dispatch_requests[i].opcode]
                     = [i \in DOMAIN b.dispatch_requests |-> b.dispatch_requests[i].opcode]
                /\ [j \in DOMAIN a.events |-> a.events[j].start_message[2]]
                     = [j \in DOMAIN b.events |-> b.events[j].start_message[2]]

\* C1 witness: the schema was generated twice and one of its interfaces
\* declares two requests and two events.
C1_Witness ==
    /\ Len(history) = 2
    /\ OkRuns = {1, 2}
    /\ \E k \in DOMAIN file.protocol.interfaces :
          /\ Len(file.protocol.interfaces[k].requests) = 2
          /\ Len(file.protocol.interfaces[k].events) = 2

\* C7: protocol(path) returns an Io or Toml error and no generated source when
\* opening, reading or parsing the schema fails; it returns generated source
\* only when loading succeeded, and then the source holds every interface of
\* the protocol in declaration order.
C7_AllOrNothing ==
    \A h \in DOMAIN history :
        /\ file.kind \in {"missing", "unreadable"} => history[h] = <<"Err", "Io">>
        /\ file.kind = "malformed" => history[h] = <<"Err", "Toml">>
        /\ history[h][1] = "Ok" =>
              /\ file.kind = "toml"
              /\ DOMAIN history[h][2].interfaces = DOMAIN file.protocol.interfaces
              /\ \A k \in DOMAIN file.protocol.interfaces :
                    history[h][2].interfaces[k].INTERFACE = file.protocol.interfaces[k].name

\* C7 witness: a call on a file that cannot be read returned the Io error.
C7_Witness ==
    /\ file.kind = "unreadable"
    /\ history # <<>>
    /\ result = <<"Err", "Io">>

(***************************************************************************)
(* Properties of SpecRun.                                                  *)
(***************************************************************************)
Dispatched == msg # <<>> /\ msg[1].dispatched
InDispatch == frame.kind = "dispatch"
InEvent == frame.kind = "event"
ReadsOf == {i \in DOMAIN log : log[i].op = "read"}
CallsOf == {i \in DOMAIN log : log[i].op = "call"}
FailedSteps == {i \in DOMAIN log : log[i].op \in {"read", "send"} /\ log[i].b[1] = "Err"}

\* C2: with N declared requests, dispatch on a handle that fails the downcast
\* returns InternalError whatever the opcode, and on a handle that downcasts
\* and an opcode outside 0..N-1 returns InvalidOpcode; in both cases nothing
\* was read from the stream and no handler was invoked.
C2_DispatchRejects ==
    Dispatched =>
        /\ ~handle =>
              ret = Err("INTERNAL") /\ log = <<>> /\ pc = "idle" /\ ~InDispatch
        /\ (handle /\ msg[1].opcode \notin 0..(Len(iface.requests) - 1)) =>
              ret = Err("INVALID_OPCODE") /\ log = <<>> /\ pc = "idle" /\ ~InDispatch

\* C2 witness: a request with a valid opcode and a payload was dispatched on
\* a handle that failed the downcast.
C2_Witness ==
    /\ Dispatched
    /\ ~handle
    /\ msg[1].opcode \in 0..(Len(iface.requests) - 1)
    /\ inbound # <<>>
    /\ ret = Err("INTERNAL")

\* C3: decoding a non-nullable String or Object argument fails with
\* MissingRequiredArgument exactly when the value read is absent and otherwise
\* yields the value unwrapped; decoding a nullable one turns an absent value
\* into the empty optional without failing; Int, Uint, Fixed, Array and Fd
\* arguments never produce MissingRequiredArgument.
C3_PresenceCheck ==
    InDispatch =>
        \A i \in ReadsOf :
            LET a == iface.requests[frame.index].args[log[i].pos]
                got == log[i].a
                out == log[i].b
            IN  /\ (a.ty \in {"String", "Object"} /\ ~a.nullable) =>
                      /\ (out = Err("NON_NULLABLE")) <=> (got = Ok(None))
                      /\ (got[1] = "Ok" /\ got[2][1] = "Some") => out = Ok(Plain(got[2][2]))
                /\ (a.ty \in {"String", "Object"} /\ a.nullable) =>
                      /\ got = Ok(None) => out = Ok(None)
                      /\ out # Err("NON_NULLABLE")
                /\ a.ty \in {"Int", "Uint", "Fixed", "Array", "Fd"} =>
                      out # Err("NON_NULLABLE")
                /\ out = Err("NON_NULLABLE") => ret = out

\* C3 witness: an absent value was read for a non-nullable String or Object
\* argument and dispatch returned MissingRequiredArgument.
C3_Witness ==
    /\ InDispatch
    /\ ret = Err("NON_NULLABLE")
    /\ \E i \in ReadsOf :
          /\ iface.requests[frame.index].args[log[i].pos].ty \in {"String", "Object"}
          /\ ~iface.requests[frame.index].args[log[i].pos].nullable
          /\ log[i].a = Ok(None)

\* the message being dispatched is an echoed event whose argument list is
\* that of the request with the same opcode
Paired ==
    /\ Dispatched
    /\ msg[1].echo # <<>>
    /\ msg[1].opcode + 1 \in DOMAIN iface.requests
    /\ iface.requests[msg[1].opcode + 1].args = iface.events[msg[1].opcode + 1].args

\* C4: when the items written by an event's encode sequence are decoded by
\* the decode sequence of a request with the same argument list, every read
\* finds the wire kind that was written at its position and succeeds, and the
\* handler receives the values the event method was called with.
C4_RoundTrip ==
    (Paired /\ InDispatch) =>
        LET sent == msg[1].echo[1]
        IN  /\ \A i \in ReadsOf :
                  /\ log[i].name = sent.items[log[i].pos].kind
                  /\ log[i].a[1] = "Ok"
                  /\ log[i].b = Ok(sent.params[log[i].pos])
            /\ \A i \in CallsOf : log[i].a = sent.params
            /\ pc = "idle" => CallsOf # {}

\* C4 witness: a three-argument event holding a non-nullable String was
\* echoed and the paired request's handler was called with its values.
C4_Witness ==
    /\ Paired /\ InDispatch
    /\ CallsOf # {}
    /\ Len(iface.requests[frame.index].args) = 3
    /\ \E k \in 1..3 :
          /\ iface.requests[frame.index].args[k].ty = "String"
          /\ ~iface.requests[frame.index].args[k].nullable
    /\ \A i \in CallsOf : log[i].a = msg[1].echo[1].params

\* What C8 says about order: the arm taken for opcode i is request i's; it
\* performs one read per argument in declared order; a failed read is the last
\* thing the arm does and its error is returned; the handler is called once,
\* after every read succeeded, with the decoded values in declared order.
DispatchOrder ==
    InDispatch =>
        LET r == iface.requests[frame.index]
            n == Len(r.args)
        IN  /\ frame.index = msg[1].opcode + 1
            /\ \A i \in DOMAIN log :
                  \/ /\ log[i].op = "read"
                     /\ i <= n
                     /\ log[i].pos = i
                     /\ log[i].name = getter(r.args[i]).call
                  \/ /\ log[i].op = "call"
                     /\ i = n + 1
                     /\ log[i].name = to_snake_case(r.name)
                     /\ log[i].a = [k \in 1..n |-> log[k].b[2]]
                     /\ ret = log[i].b
            /\ \A i \in FailedSteps : i = Len(log) /\ ret = log[i].b /\ pc = "idle"
            /\ (pc = "idle" /\ FailedSteps = {}) => CallsOf = {n + 1}
            /\ pc # "idle" => CallsOf = {}

\* C8 as stated: the order above, with the reads made on the cursor of the
\* `_message` passed to dispatch.
C8_AsStated ==
    /\ DispatchOrder
    /\ InDispatch => \A i \in ReadsOf : log[i].src = "_message"

\* C8 amended: the order above, with the reads made on the stream obtained
\* from the client (`_client.stream()`); `_message` supplies only the opcode.
C8_DecodeThenCall ==
    /\ DispatchOrder
    /\ InDispatch => \A i \in ReadsOf : log[i].src = "_client.stream()"

\* C8 witness: the second read of a three-argument request failed after the
\* first succeeded, and dispatch returned without calling the handler.
C8_Witness ==
    /\ InDispatch
    /\ Len(iface.requests[frame.index].args) = 3
    /\ Len(log) = 2
    /\ log[1].b[1] = "Ok"
    /\ log[2].b[1] = "Err"
    /\ pc = "idle"
    /\ ret = log[2].b

\* C9: an event method starts one message keyed by (object id, the event's
\* zero-based position), then encodes each argument in declared order, then
\* commits once with the key start_message returned and returns the commit's
\* result; a failed encode is returned at once and nothing is committed.
C9_StartSendCommit ==
    InEvent =>
        LET e == iface.events[frame.index]
            n == Len(e.args)
        IN  /\ log # <<>>
            /\ log[1].op = "start_message"
            /\ log[1].a = <<ObjectId, frame.index - 1>>
            /\ \A i \in 2..Len(log) :
                  \/ /\ log[i].op = "send"
                     /\ i - 1 <= n
                     /\ log[i].pos = i - 1
                     /\ log[i].name = sender(e.args[i - 1]).call
                     /\ log[i].a = IF sender(e.args[i - 1]).some
                                   THEN Some(frame.bindings[i - 1].value[2])
                                   ELSE frame.bindings[i - 1].value
                  \/ /\ log[i].op = "commit"
                     /\ i = n + 2
                     /\ log[i].a = log[1].b
                     /\ ret = log[i].b
            /\ \A i \in FailedSteps : i = Len(log) /\ ret = log[i].b /\ pc = "idle"
            /\ (pc = "idle" /\ FailedSteps = {}) =>
                  Len(log) = n + 2 /\ log[n + 2].op = "commit"
            /\ pc # "idle" => \A i \in DOMAIN log : log[i].op # "commit"
            /\ transport # <<>> => ret = Ok(Unit)

\* C9 witness: a two-argument event was encoded and its commit failed, which
\* the method returned.
C9_Witness ==
    /\ InEvent
    /\ Len(iface.events[frame.index].args) = 2
    /\ Len(log) = 4
    /\ log[4].op = "commit"
    /\ ret = Err("COMMIT")
    /\ transport = <<>>

\* C10: for a NewId argument with a pinned interface the owned type, the
\* transient type, the decode template and the encode template are those of a
\* non-nullable Object argument, and for a NewId argument without one they are
\* the new-id descriptor type and the new-id read and write, in both cases
\* whatever the nullable flag.
C10_NewIdShapes ==
    code # <<>> =>
        /\ \A r \in DOMAIN iface.requests : \A k \in DOMAIN iface.requests[r].args :
              LET a == iface.requests[r].args[k]
                  obj == Arg(a.name, FALSE, "Object", <<>>)
                  p == code[1].requests[r].params[k]
                  d == code[1].dispatch_requests[r].define_args[k]
              IN  a.ty = "NewId" =>
                     IF a.interface # <<>>
                     THEN /\ p.ty = "::yutani::Id" /\ p.ty = ty(obj)
                          /\ d.getter = Getter("object", TRUE) /\ d.getter = getter(obj)
                     ELSE /\ p.ty = "::yutani::NewId"
                          /\ d.getter = Getter("new_id", FALSE)
        /\ \A e \in DOMAIN iface.events : \A k \in DOMAIN iface.events[e].args :
              LET a == iface.events[e].args[k]
                  obj == Arg(a.name, FALSE, "Object", <<>>)
                  p == code[1].events[e].params[k]
                  snd == code[1].events[e].args_senders[k]
              IN  a.ty = "NewId" =>
                     IF a.interface # <<>>
                     THEN /\ p.ty = "::yutani::Id" /\ p.ty = send_ty(obj)
                          /\ snd = Sender("send_object", to_snake_case(a.name), TRUE)
                          /\ snd = sender(obj)
                     ELSE /\ p.ty = "&'_ ::yutani::NewId"
                          /\ snd = Sender("send_new_id", to_snake_case(a.name), FALSE)

\* C10 witness: the code of an interface whose request and event take a
\* nullable NewId with a pinned interface has been emitted, and its dispatch
\* has decoded that argument with the object read.
C10_Witness ==
    /\ code # <<>>
    /\ InDispatch
    /\ \E i \in ReadsOf :
          /\ iface.requests[frame.index].args[log[i].pos].ty = "NewId"
          /\ iface.requests[frame.index].args[log[i].pos].nullable
          /\ log[i].name = "object"
          /\ log[i].b[1] = "Ok"
    /\ \E r \in DOMAIN iface.requests : \E k \in DOMAIN iface.requests[r].args :
          /\ iface.requests[r].args[k].ty = "NewId"
          /\ iface.requests[r].args[k].nullable
          /\ iface.requests[r].args[k].interface # <<>>
          /\ code[1].dispatch_requests[r].define_args[k].getter = Getter("object", TRUE)

OptionalReads == {"string", "object"}
OptionalWrites == {"send_string", "send_object"}
IsOptionValue(v) == v[1] \in {"Some", "None"}

\* C11: for every argument of every request and event the four artifacts
\* agree: the owned type is Option<..> exactly when the decode template is an
\* optional read (string, object) with no unwrap-or-fail, and the encode
\* template wraps its parameter in Some exactly when the transient type is not
\* Option<..> and the write is an optional write (send_string, send_object);
\* hence every decoded value is an Option exactly when its owned type is, and
\* every value handed to an optional write is an Option.
C11_ArtifactsAgree ==
    code # <<>> =>
        /\ \A r \in DOMAIN code[1].requests : \A k \in DOMAIN code[1].requests[r].params :
              LET p == code[1].requests[r].params[k]
                  g == code[1].dispatch_requests[r].define_args[k].getter
              IN  (p.ty \in OptionTypes) <=> (g.call \in OptionalReads /\ ~g.ok_or)
        /\ \A e \in DOMAIN code[1].events : \A k \in DOMAIN code[1].events[e].params :
              LET p == code[1].events[e].params[k]
                  snd == code[1].events[e].args_senders[k]
              IN  snd.some <=> (p.ty \notin OptionTypes /\ snd.call \in OptionalWrites)
        /\ InDispatch =>
              \A k \in DOMAIN frame.bindings :
                  IsOptionValue(frame.bindings[k].value)
                      <=> (code[1].requests[frame.index].params[k].ty \in OptionTypes)
        /\ InEvent =>
              \A i \in DOMAIN log :
                  (log[i].op = "send" /\ log[i].name \in OptionalWrites) =>
                      IsOptionValue(log[i].a)

\* C11 witness: a nullable String argument, whose owned type is
\* Option<String>, was decoded from an absent wire value into the empty
\* optional.
C11_Witness ==
    /\ InDispatch
    /\ \E k \in DOMAIN frame.bindings :
          /\ iface.requests[frame.index].args[k].ty = "String"
          /\ iface.requests[frame.index].args[k].nullable
          /\ code[1].requests[frame.index].params[k].ty
                = "::core::option::Option<::std::string::String>"
          /\ frame.bindings[k].value = None

(***************************************************************************)
(* Properties of SpecEnum.                                                 *)
(***************************************************************************)
Digit(v) == <<"0","1","2","3","4","5","6","7","8","9">>[v + 1]
Text(name, v) == name \o <<"(", Digit(v), ")">>
Unknown(v) == <<"U","N","K","N","O","W","N","(", Digit(v), ")">>
EntriesWithValue(v) == {k \in DOMAIN enumDecl.entries : enumDecl.entries[k].value = v}

\* C5 as stated: rendering the value of any declared entry gives that entry's
\* constant name followed by "(value)", and rendering a value no entry declares
\* gives "UNKNOWN(value)".
C5_AsStated ==
    rendered # <<>> =>
        LET v == rendered[1].value
        IN  /\ \A k \in EntriesWithValue(v) :
                  rendered[1].text = Text(enumCode[1].entries[k].ident, v)
            /\ EntriesWithValue(v) = {} => rendered[1].text = Unknown(v)

\* C5 amended: rendering a value that some entry declares gives the constant
\* name of the first declared entry with that value followed by "(value)", and
\* rendering a value no entry declares gives "UNKNOWN(value)".
C5_FirstEntryWithValueIsRendered ==
    rendered # <<>> =>
        LET v == rendered[1].value
            ks == EntriesWithValue(v)
        IN  /\ ks # {} =>
                  LET first == CHOOSE k \in ks : \A j \in ks : k <= j
                  IN  rendered[1].text = Text(enumCode[1].entries[first].ident, v)
            /\ ks = {} => rendered[1].text = Unknown(v)

\* C5 witness: a value declared by two entries with different constant names
\* has been rendered.
C5_Witness ==
    /\ rendered # <<>>
    /\ \E j, k \in EntriesWithValue(rendered[1].value) :
          enumCode[1].entries[j].ident # enumCode[1].entries[k].ident

StartsWithDigit(name) == name # <<>> /\ Head(name) \in DigitChars
StartsWithNumeric(name) ==
    name # <<>> /\ Head(name) \in DigitChars \cup {"U2180"}

\* How the entries used here read in constant style.
ConstantStyle(name) ==
    CASE name = Name_normal -> <<"N","O","R","M","A","L">>
      [] name = Name_flipped_90 -> <<"F","L","I","P","P","E","D","_","9","0">>
      [] name = Name_roman -> <<"U2180">>
      [] name = Name_transform \o <<"_">> \o Name_180
            -> <<"T","R","A","N","S","F","O","R","M","_","1","8","0">>
      [] name = Name_mode \o <<"_">> \o Name_180 -> <<"M","O","D","E","_","1","8","0">>
      [] name = Name_transform \o <<"_">> \o Name_roman
            -> <<"T","R","A","N","S","F","O","R","M","_","U2180">>
      [] name = Name_mode \o <<"_">> \o Name_roman -> <<"M","O","D","E","_","U2180">>

\* C6 as stated: an entry whose name begins with a digit gets the constant
\* style of <EnumName>_<EntryName>, any other entry the constant style of its
\* own name, and the rendering uses the same identifier.
C6_AsStated ==
    enumCode # <<>> =>
        \A k \in DOMAIN enumDecl.entries :
            LET n == enumDecl.entries[k].name
            IN  /\ enumCode[1].entries[k].ident =
                      IF StartsWithDigit(n)
                      THEN ConstantStyle(enumDecl.name \o <<"_">> \o n)
                      ELSE ConstantStyle(n)
                /\ enumCode[1].entries_debug[k].name = enumCode[1].entries[k].ident

\* C6 amended: an entry whose name begins with a numeric character (a decimal
\* digit or any other character of the Unicode number categories, as tested by
\* char::is_numeric) gets the constant style of <EnumName>_<EntryName>, any
\* other entry the constant style of its own name, and the rendering uses the
\* same identifier as the constant.
C6_NumericPrefixedConstant ==
    enumCode # <<>> =>
        \A k \in DOMAIN enumDecl.entries :
            LET n == enumDecl.entries[k].name
            IN  /\ enumCode[1].entries[k].ident =
                      IF StartsWithNumeric(n)
                      THEN ConstantStyle(enumDecl.name \o <<"_">> \o n)
                      ELSE ConstantStyle(n)
                /\ enumCode[1].entries_debug[k].name = enumCode[1].entries[k].ident

\* C6 witness: entry "180" of enum "transform" was given the constant
\* TRANSFORM_180.
C6_Witness ==
    /\ enumCode # <<>>
    /\ enumDecl.name = Name_transform
    /\ \E k \in DOMAIN enumDecl.entries :
          /\ enumDecl.entries[k].name = Name_180
          /\ enumCode[1].entries[k].ident
                = <<"T","R","A","N","S","F","O","R","M","_","1","8","0">>

====
